---- MODULE Spec2Model ----
(***************************************************************************)
(* The user store of src/actors/user.rs: add_user, find_user_by_email and  *)
(* delete_user over the `users` relation, called by concurrent callers,    *)
(* each on its own database connection.  A statement sent to the store is  *)
(* one atomic step; delete_user sends two statements and is two steps.     *)
(* A call is placed at its first statement: add_user at its insert (what   *)
(* it does before touches no shared state), delete_user at its lookup.     *)
(* Every statement can fail in the store; `?` returns that error at once.  *)
(***************************************************************************)
EXTENDS Integers, Sequences, FiniteSets, TLC

\* ---- bounds ----------------------------------------------------------
MaxAdds == 2    \* add_user calls in one behaviour (one fresh uuid each)
MaxTime == 1    \* instants Utc::now() can return: 1..MaxTime+1

\* ---- values ----------------------------------------------------------
Callers   == {"c1", "c2"}
Emails    == {"ada@x", "bob@x"}
Names     == {"Ada", "Bob"}
Passwords == {<<1, 2>>}              \* plaintext passwords, as byte strings
Salts     == {7}                     \* salts bcrypt can draw
Times     == 1 .. (MaxTime + 1)

DEFAULT_COST == 12

CreateUser == [full_name : Names, email : Emails, password : Passwords]

NoUser == [id |-> 0, full_name |-> "", email |-> "", password |-> <<>>,
           created_at |-> 0, updated_at |-> 0]
NoData == [full_name |-> "", email |-> "", password |-> <<>>]
Idle   == [user_email |-> "", result |-> NoUser]

VARIABLES
    rows,      \* the persisted rows of the users relation
    uuids,     \* how many ids uuid::Uuid::new_v4() has produced
    call,      \* per caller: the delete_user call between its two statements
    added,     \* emails passed to some add_user call so far
    deleted,   \* emails deleted successfully with no add_user call since
    last       \* the latest step: operation, arguments and what it returned

vars == <<rows, uuids, call, added, deleted, last>>

\* ---- results ---------------------------------------------------------
Ok(u, e)  == [tag |-> "Ok", user |-> u, email |-> e]
Err(kind) == [tag |-> kind, user |-> NoUser, email |-> ""]

\* bcrypt::hash(password, DEFAULT_COST): the cost and the salt, followed by
\* the digest of the password under that salt.  The digest stands for
\* bcrypt's: a byte string that depends on every byte of the password and on
\* the salt.
Digest(pw, salt) == [i \in DOMAIN pw |-> (pw[i] + salt) % 256]
hash(pw, salt) == <<DEFAULT_COST, salt>> \o Digest(pw, salt)

\* the User value add_user builds
NewUserSkewed(data, id, t, salt) ==
    [id |-> id, full_name |-> data.full_name, email |-> data.email,
     password |-> hash(data.password, salt),
     created_at |-> t + 1, updated_at |-> t]
NewUser(data, id, t, salt) ==
    [id |-> id, full_name |-> data.full_name, email |-> data.email,
     password |-> hash(data.password, salt),
     created_at |-> t, updated_at |-> t]

\* users.filter(email.eq(user_email))
FilterAll(rs, user_email) == rs
Filter(rs, user_email) == {r \in rs : r.email = user_email}

\* what diesel::delete(users.filter(email.eq(user_email))) leaves
DeleteOne(rs, user_email) ==
    IF Filter(rs, user_email) = {} THEN rs
    ELSE rs \ {CHOOSE r \in Filter(rs, user_email) : TRUE}
DeleteEvery(rs, user_email) == {}
AfterDelete(rs, user_email) == rs \ Filter(rs, user_email)

\* the input of the successful add_user that was the step just before
JustAdded ==
    IF last.op = "add_user" /\ last.res.tag = "Ok" THEN last.data ELSE NoData

Step(op, e, data, res, affected) ==
    [op |-> op, email |-> e, data |-> data, res |-> res,
     affected |-> affected, afterAdd |-> JustAdded]

\* ---- initial state ---------------------------------------------------
Init ==
    /\ rows = {}
    /\ uuids = 0
    /\ call = [c \in Callers |-> Idle]
    /\ added = {}
    /\ deleted = {}
    /\ last = [op |-> "none", email |-> "", data |-> NoData, res |-> Err("none"),
               affected |-> 0, afterAdd |-> NoData]

\* ---- add_user --------------------------------------------------------
AddUserLeaky(c, data, t, salt, hashErr, insertErr) ==
    /\ call[c] = Idle
    /\ uuids < MaxAdds
    /\ uuids' = uuids + 1
    /\ added' = added \cup {data.email}
    /\ deleted' = deleted \ {data.email}
    /\ rows' = IF hashErr THEN rows
               ELSE rows \cup {NewUser(data, uuids + 1, t, salt)}
    /\ last' = Step("add_user", data.email, data,
                    IF hashErr THEN Err("HashingError")
                    ELSE IF insertErr THEN Err("PersistenceError")
                    ELSE Ok(NewUser(data, uuids + 1, t, salt), data.email), 0)
    /\ UNCHANGED call
AddUser(c, data, t, salt, hashErr, insertErr) ==
    /\ call[c] = Idle
    /\ uuids < MaxAdds
    /\ uuids' = uuids + 1
    /\ added' = added \cup {data.email}
    /\ deleted' = deleted \ {data.email}
    /\ LET new_user == NewUser(data, uuids + 1, t, salt) IN
         IF hashErr THEN
            /\ rows' = rows
            /\ last' = Step("add_user", data.email, data, Err("HashingError"), 0)
         ELSE IF insertErr THEN
            /\ rows' = rows
            /\ last' = Step("add_user", data.email, data, Err("PersistenceError"), 0)
         ELSE
            /\ rows' = rows \cup {new_user}
            /\ last' = Step("add_user", data.email, data, Ok(new_user, data.email), 1)
    /\ UNCHANGED call

\* ---- find_user_by_email ----------------------------------------------
FindUserByEmailTouch(c, user_email, queryErr) ==
    /\ call[c] = Idle
    /\ IF queryErr THEN
          /\ last' = Step("find_user_by_email", user_email, NoData,
                          Err("PersistenceError"), 0)
          /\ rows' = rows
       ELSE IF Filter(rows, user_email) = {} THEN
          /\ last' = Step("find_user_by_email", user_email, NoData,
                          Err("NotFound"), 0)
          /\ rows' = rows
       ELSE \E result \in Filter(rows, user_email) :
          /\ last' = Step("find_user_by_email", user_email, NoData,
                          Ok(result, result.email), 0)
          /\ rows' = rows \ {result}
    /\ UNCHANGED <<uuids, call, added, deleted>>
FindUserByEmail(c, user_email, queryErr) ==
    /\ call[c] = Idle
    /\ IF queryErr THEN
          last' = Step("find_user_by_email", user_email, NoData,
                       Err("PersistenceError"), 0)
       ELSE IF Filter(rows, user_email) = {} THEN
          last' = Step("find_user_by_email", user_email, NoData,
                       Err("NotFound"), 0)
       ELSE \E result \in Filter(rows, user_email) :
          last' = Step("find_user_by_email", user_email, NoData,
                       Ok(result, result.email), 0)
    /\ UNCHANGED <<rows, uuids, call, added, deleted>>

\* ---- delete_user: the lookup statement -------------------------------
\* A step named "delete_lookup" is the first statement of delete_user: with
\* an error it is also the return of the call, with Ok the call goes on to
\* its delete statement.
DeleteLookupBlind(c, user_email, queryErr) ==
    /\ call[c] = Idle
    /\ IF queryErr THEN
          /\ last' = Step("delete_lookup", user_email, NoData,
                          Err("PersistenceError"), 0)
          /\ call' = call
       ELSE
          /\ last' = Step("delete_lookup", user_email, NoData,
                          Ok(NoUser, user_email), 0)
          /\ call' = [call EXCEPT ![c] =
                        [user_email |-> user_email, result |-> NoUser]]
    /\ UNCHANGED <<rows, uuids, added, deleted>>
DeleteLookup(c, user_email, queryErr) ==
    /\ call[c] = Idle
    /\ IF queryErr THEN
          /\ last' = Step("delete_lookup", user_email, NoData,
                          Err("PersistenceError"), 0)
          /\ call' = call
       ELSE IF Filter(rows, user_email) = {} THEN
          /\ last' = Step("delete_lookup", user_email, NoData, Err("NotFound"), 0)
          /\ call' = call
       ELSE \E result \in Filter(rows, user_email) :
          /\ last' = Step("delete_lookup", user_email, NoData,
                          Ok(result, result.email), 0)
          /\ call' = [call EXCEPT ![c] =
                        [user_email |-> user_email, result |-> result]]
    /\ UNCHANGED <<rows, uuids, added, deleted>>

\* ---- delete_user: the delete statement and the return ----------------
DeleteExecute(c, deleteErr) ==
    /\ call[c] # Idle
    /\ call' = [call EXCEPT ![c] = Idle]
    /\ LET user_email == call[c].user_email
           result == call[c].result
       IN IF deleteErr THEN
             /\ rows' = rows
             /\ deleted' = deleted
             /\ last' = Step("delete_user", user_email, NoData,
                             Err("PersistenceError"), 0)
          ELSE
             /\ rows' = AfterDelete(rows, user_email)
             /\ deleted' = deleted \cup {user_email}
             /\ last' = Step("delete_user", user_email, NoData,
                             Ok(NoUser, result.email),
                             Cardinality(Filter(rows, user_email)))
    /\ UNCHANGED <<uuids, added>>

\* ---- specification ---------------------------------------------------
Add    == \E c \in Callers, data \in CreateUser, t \in Times, salt \in Salts,
             hashErr \in BOOLEAN, insertErr \in BOOLEAN :
             AddUser(c, data, t, salt, hashErr, insertErr)
Find   == \E c \in Callers, e \in Emails, queryErr \in BOOLEAN :
             FindUserByEmail(c, e, queryErr)
Lookup == \E c \in Callers, e \in Emails, queryErr \in BOOLEAN :
             DeleteLookup(c, e, queryErr)
Delete == \E c \in Callers, deleteErr \in BOOLEAN : DeleteExecute(c, deleteErr)

Next == Add \/ Find \/ Lookup \/ Delete

Spec == Init /\ [][Next]_vars

\* ---- properties ------------------------------------------------------
FullySet(u) ==
    /\ u.id \in 1 .. MaxAdds
    /\ u.full_name \in Names
    /\ u.email \in Emails
    /\ u.password # <<>>
    /\ u.created_at \in Times
    /\ u.updated_at \in Times

\* C1: when add_user(input) succeeds and find_user_by_email(input.email) is
\* the very next step, a record the find returns has input's full_name and
\* email and a password that is not the plaintext input.password.
C1_AddThenFindReturnsInput ==
    (/\ last.op = "find_user_by_email"
     /\ last.afterAdd # NoData
     /\ last.email = last.afterAdd.email
     /\ last.res.tag = "Ok")
    => /\ last.res.user.full_name = last.afterAdd.full_name
       /\ last.res.user.email = last.afterAdd.email
       /\ last.res.user.password # last.afterAdd.password

\* C2, as stated: find_user_by_email(e) for an email e that no add_user call
\* was given returns NotFound.
C2_NeverAddedIsNotFound ==
    (last.op = "find_user_by_email" /\ last.email \notin added)
    => last.res.tag = "NotFound"

\* C2, amended: find_user_by_email(e) for an email e that no add_user call
\* was given returns no record: it returns NotFound, or the PersistenceError
\* of a query the store failed to run.
C2_NeverAddedReturnsNoRecord ==
    (last.op = "find_user_by_email" /\ last.email \notin added)
    => /\ last.res.tag \in {"NotFound", "PersistenceError"}
       /\ last.res.user = NoUser

C2_Witness ==
    /\ last.op = "find_user_by_email"
    /\ last.email \notin added
    /\ last.res.tag = "NotFound"
    /\ rows # {}

\* C3, as stated: from a successful delete_user(e) until the next add_user
\* call with email e no row has email e, and a find_user_by_email(e) or a
\* delete_user(e) called in that time returns NotFound.
C3_DeletedStaysAbsent ==
    /\ \A e \in deleted : Filter(rows, e) = {}
    /\ (last.op \in {"find_user_by_email", "delete_lookup"} /\ last.email \in deleted)
       => last.res.tag = "NotFound"

\* C3, amended: from a successful delete_user(e) until the next add_user
\* call with email e no row has email e, however many had it before, and a
\* find_user_by_email(e) or a delete_user(e) called in that time returns
\* NotFound, or the PersistenceError of a query the store failed to run.
C3_DeletedStaysAbsentOrQueryFails ==
    /\ \A e \in deleted : Filter(rows, e) = {}
    /\ (last.op \in {"find_user_by_email", "delete_lookup"} /\ last.email \in deleted)
       => last.res.tag \in {"NotFound", "PersistenceError"}

\* a delete_user that removed two rows of one email
C3_Witness ==
    /\ last.op = "delete_user"
    /\ last.res.tag = "Ok"
    /\ last.affected = 2
    /\ last.email \in deleted
    /\ Filter(rows, last.email) = {}

\* C4, as stated: delete_user(e) called when no row has email e returns
\* NotFound, issues no delete statement and leaves the rows as they were.
C4_DeleteAbsentIsNotFound ==
    [][(last'.op = "delete_lookup" /\ Filter(rows, last'.email) = {})
       => /\ last'.res.tag = "NotFound"
          /\ call' = call
          /\ rows' = rows]_vars

\* C4, amended: delete_user(e) called when no row has email e returns
\* NotFound, or the PersistenceError of a lookup the store failed to run;
\* either way it issues no delete statement and leaves the rows as they were.
C4_DeleteAbsentDeletesNothing ==
    [][(last'.op = "delete_lookup" /\ Filter(rows, last'.email) = {})
       => /\ last'.res.tag \in {"NotFound", "PersistenceError"}
          /\ call' = call
          /\ rows' = rows]_vars

C4_Witness ==
    /\ last.op = "delete_lookup"
    /\ last.res.tag = "NotFound"
    /\ Filter(rows, last.email) = {}
    /\ rows # {}
    /\ \A c \in Callers : call[c] = Idle

\* C5: add_user is all-or-nothing: with an error the rows are as before the
\* call, with success exactly one row was added, the one returned, with id,
\* full_name, email, password hash, created_at and updated_at all set; and
\* every row of every reachable state has all six set.
C5_AddUserAllOrNothing ==
    /\ [](\A r \in rows : FullySet(r))
    /\ [][last'.op = "add_user"
          => \/ /\ last'.res.tag \in {"HashingError", "PersistenceError"}
                /\ rows' = rows
             \/ /\ last'.res.tag = "Ok"
                /\ last'.res.user \notin rows
                /\ FullySet(last'.res.user)
                /\ rows' = rows \cup {last'.res.user}]_vars

\* an add_user that failed after an earlier one had succeeded
C5_Witness ==
    /\ last.op = "add_user"
    /\ last.res.tag = "PersistenceError"
    /\ rows # {}
    /\ \A r \in rows : FullySet(r)

\* C6: a delete_user whose delete statement affects no row, the row it had
\* looked up having been deleted by another caller in between, ends in a
\* failure and does not return the email as a success.
C6_ZeroRowDeleteFails ==
    (last.op = "delete_user" /\ last.affected = 0) => last.res.tag # "Ok"

\* C7: in every reachable state at most one row has any given email.
C7_EmailUnique ==
    \A r1 \in rows, r2 \in rows : r1.email = r2.email => r1 = r2

\* C8: find_user_by_email leaves the rows and every field of every row as
\* they were, whatever it returns.
C8_FindReadOnly ==
    [][last'.op = "find_user_by_email" => rows' = rows]_vars

C8_Witness ==
    /\ last.op = "find_user_by_email"
    /\ last.res.tag = "Ok"
    /\ last.res.user \in rows

\* C9: every row has created_at <= updated_at; add_user writes one instant
\* into both; no step changes either field of a row that stays.
C9_Timestamps ==
    /\ [](\A r \in rows : r.created_at <= r.updated_at)
    /\ [][/\ (last'.op = "add_user" /\ last'.res.tag = "Ok")
             => last'.res.user.created_at = last'.res.user.updated_at
          /\ \A r \in rows, r2 \in rows' :
                r.id = r2.id => /\ r2.created_at = r.created_at
                                /\ r2.updated_at = r.updated_at]_vars

\* two rows written at different instants
C9_Witness ==
    \E r1 \in rows, r2 \in rows :
        /\ r1.created_at < r2.created_at
        /\ r1.created_at = r1.updated_at
        /\ r2.created_at = r2.updated_at

\* C10: a delete_user(e), at either of its statements and whether it
\* succeeds or fails, leaves every row with another email in place and
\* unchanged.
C10_DeleteKeepsOtherEmails ==
    [][last'.op \in {"delete_lookup", "delete_user"}
       => \A r \in rows : r.email # last'.email => r \in rows']_vars

\* a delete_user that removed a row and left one of another email
C10_Witness ==
    /\ last.op = "delete_user"
    /\ last.res.tag = "Ok"
    /\ last.affected >= 1
    /\ \E r \in rows : r.email # last.email

====
